---------------------------- MODULE Spec2Model ----------------------------
(***************************************************************************)
(* A model of own-db: chapter 1 (durable file writers, the checksummed     *)
(* append-only log) and chapter 2 (the linear-probing hashtable and the    *)
(* sorted array).                                                          *)
(*                                                                         *)
(* Strings and file contents are sequences of bytes (0..255), so that the  *)
(* text format, the SHA-1 digests and their lossy UTF-8 conversion are     *)
(* computed, not assumed.                                                  *)
(***************************************************************************)
EXTENDS Integers, Sequences, FiniteSets, TLC

VARIABLES
  entries,      \* AppendOnlyLogDB.entries
  disk,         \* the backing file's content as a reader of the path sees it
  stable,       \* the part of the backing file known to be on stable storage
  io_failures,  \* how many I/O failures have been injected so far
  last,         \* the last completed call on the log store and what it reported
  reopened,     \* the outcome of the last from_path on the backing file
  decoded,      \* the last line given to LogEntry::try_from and the outcome
  fs,           \* the directory: the inode each path names, NoInode for none
  inodes,       \* the content of each file, by inode
  writer,       \* where the caller of save_data2 stands
  reader,       \* where the concurrent reader of the target path stands
  versions,     \* what the target held at first and what each save was given
  saves,        \* how many save_data2 calls were made
  ht,           \* the Hashtable: inner, size, and whether insert panicked
  ht_map,       \* the map the Hashtable's calls describe, key by key
  ht_last,      \* the last call on the Hashtable and what it returned
  ht_deleted,   \* whether delete was ever called on the Hashtable
  sa_inner,     \* SortedArray.inner
  sa_call,      \* the SortedArray call in progress and its local variables
  sa_map        \* the map the SortedArray's returned calls describe

log_vars == <<entries, disk, stable, io_failures, last, reopened, decoded>>
save_vars == <<fs, inodes, writer, reader, versions, saves>>
hash_vars == <<ht, ht_map, ht_last, ht_deleted>>
sorted_vars == <<sa_inner, sa_call, sa_map>>

vars == <<log_vars, save_vars, hash_vars, sorted_vars>>

---------------------------------------------------------------------------
(* Bytes                                                                   *)

SP == 32
NL == 10

Min(S) == CHOOSE x \in S : \A y \in S : x <= y

\* the k-th smallest element of a set of numbers
Nth(S, k) == CHOOSE x \in S : Cardinality({y \in S : y < x}) = k - 1

\* the pieces of s before, between and after the separators at positions P
Pieces(s, P) ==
  [k \in 1..(Cardinality(P) + 1) |->
     SubSeq(s, IF k = 1 THEN 1 ELSE Nth(P, k - 1) + 1,
               IF k = Cardinality(P) + 1 THEN Len(s) ELSE Nth(P, k) - 1)]

\* str::split(sep): the pieces between separators; one piece, the empty one,
\* for the empty string.
Split(s, sep) == Pieces(s, {i \in 1..Len(s) : s[i] = sep})

---------------------------------------------------------------------------
(* SHA-1 (the sha1 crate), on 32-bit words held as <<high 16, low 16>>.    *)

RECURSIVE BitOp(_, _, _, _)
BitOp(op, a, b, n) ==
  IF n = 0 THEN 0
  ELSE LET x == a % 2
           y == b % 2
           r == IF op = "xor" THEN (x + y) % 2
                ELSE IF op = "and" THEN x * y
                ELSE IF x + y > 0 THEN 1 ELSE 0
       IN r + 2 * BitOp(op, a \div 2, b \div 2, n - 1)

XorNib == [a \in 0..15 |-> [b \in 0..15 |-> BitOp("xor", a, b, 4)]]
AndNib == [a \in 0..15 |-> [b \in 0..15 |-> BitOp("and", a, b, 4)]]
OrNib  == [a \in 0..15 |-> [b \in 0..15 |-> BitOp("or", a, b, 4)]]

\* a bitwise operation on 16-bit halves, a nibble at a time
Nib4(T, a, b) ==
  T[a % 16][b % 16]
  + 16 * T[(a \div 16) % 16][(b \div 16) % 16]
  + 256 * T[(a \div 256) % 16][(b \div 256) % 16]
  + 4096 * T[a \div 4096][b \div 4096]

Xor32(x, y) == <<Nib4(XorNib, x[1], y[1]), Nib4(XorNib, x[2], y[2])>>
And32(x, y) == <<Nib4(AndNib, x[1], y[1]), Nib4(AndNib, x[2], y[2])>>
Or32(x, y)  == <<Nib4(OrNib, x[1], y[1]), Nib4(OrNib, x[2], y[2])>>
Not32(x)    == <<65535 - x[1], 65535 - x[2]>>

RECURSIVE Pow2(_)
Pow2(n) == IF n = 0 THEN 1 ELSE 2 * Pow2(n - 1)

\* rotate left by n, 0 < n < 16
RotlSmall(x, n) ==
  <<((x[1] * Pow2(n)) % 65536) + (x[2] \div Pow2(16 - n)),
    ((x[2] * Pow2(n)) % 65536) + (x[1] \div Pow2(16 - n))>>

Rotl(x, n) == IF n < 16 THEN RotlSmall(x, n) ELSE RotlSmall(<<x[2], x[1]>>, n - 16)

\* wrapping addition of five words
Add5(a, b, c, d, e) ==
  LET lo == a[2] + b[2] + c[2] + d[2] + e[2]
      hi == a[1] + b[1] + c[1] + d[1] + e[1] + (lo \div 65536)
  IN <<hi % 65536, lo % 65536>>

Zero32 == <<0, 0>>

\* the one padded block of a message shorter than 56 bytes
Sha1Pad(m) ==
  m \o <<128>> \o [i \in 1..(55 - Len(m)) |-> 0]
    \o <<0, 0, 0, 0, 0, 0, (Len(m) * 8) \div 256, (Len(m) * 8) % 256>>

Sha1Word(blk, i) ==
  <<blk[4*i + 1] * 256 + blk[4*i + 2], blk[4*i + 3] * 256 + blk[4*i + 4]>>

RECURSIVE Sha1Schedule(_)
Sha1Schedule(w) ==
  IF Len(w) = 80 THEN w
  ELSE LET t == Len(w) + 1
           x == Xor32(Xor32(w[t-3], w[t-8]), Xor32(w[t-14], w[t-16]))
       IN Sha1Schedule(Append(w, Rotl(x, 1)))

Sha1F(t, b, c, d) ==
  IF t < 20 THEN Or32(And32(b, c), And32(Not32(b), d))
  ELSE IF t < 40 THEN Xor32(Xor32(b, c), d)
  ELSE IF t < 60 THEN Or32(Or32(And32(b, c), And32(b, d)), And32(c, d))
  ELSE Xor32(Xor32(b, c), d)

\* 5A827999, 6ED9EBA1, 8F1BBCDC, CA62C1D6
Sha1K(t) ==
  IF t < 20 THEN <<23170, 31129>>
  ELSE IF t < 40 THEN <<28377, 60321>>
  ELSE IF t < 60 THEN <<36635, 48348>>
  ELSE <<51810, 49622>>

\* 67452301, EFCDAB89, 98BADCFE, 10325476, C3D2E1F0
Sha1H0 ==
  << <<26437, 8961>>, <<61389, 43913>>, <<39098, 56574>>, <<4146, 21622>>,
     <<50130, 57840>> >>

RECURSIVE Sha1Rounds(_, _, _)
Sha1Rounds(t, s, w) ==
  IF t = 80 \/ Len(s) # 5 THEN s
  ELSE LET tmp == Add5(Rotl(s[1], 5), Sha1F(t, s[2], s[3], s[4]), s[5], Sha1K(t),
                       w[t + 1])
       IN Sha1Rounds(t + 1, <<tmp, s[1], Rotl(s[2], 30), s[3], s[4]>>, w)

Sha1Compute(m) ==
  LET blk == Sha1Pad(m)
      w == Sha1Schedule([i \in 1..16 |-> Sha1Word(blk, i - 1)])
      s == Sha1Rounds(0, Sha1H0, w)
      h == [i \in 1..5 |-> Add5(Sha1H0[i], s[i], Zero32, Zero32, Zero32)]
  IN [i \in 1..20 |-> LET wd == h[((i - 1) \div 4) + 1]
                          half == wd[(((i - 1) % 4) \div 2) + 1]
                      IN IF (i - 1) % 2 = 0 THEN half \div 256 ELSE half % 256]

---------------------------------------------------------------------------
(* UTF-8 (String::from_utf8_lossy, BufRead::read_line).                    *)

ByteAt(s, i) == IF i <= Len(s) THEN s[i] ELSE 0

IsCont(b) == b >= 128 /\ b <= 191

\* the length of the well-formed character, or of the ill-formed sequence,
\* that starts at s[i]
Utf8Step(s, i) ==
  LET b == s[i]
      b2 == ByteAt(s, i + 1)
      b3 == ByteAt(s, i + 2)
      b4 == ByteAt(s, i + 3)
      Bad(n) == [valid |-> FALSE, len |-> n]
      Good(n) == [valid |-> TRUE, len |-> n]
  IN IF b < 128 THEN Good(1)
     ELSE IF b >= 194 /\ b <= 223
       THEN IF IsCont(b2) THEN Good(2) ELSE Bad(1)
     ELSE IF b >= 224 /\ b <= 239
       THEN IF ~ ( \/ (b = 224 /\ b2 >= 160 /\ b2 <= 191)
                   \/ (b >= 225 /\ b <= 236 /\ IsCont(b2))
                   \/ (b = 237 /\ b2 >= 128 /\ b2 <= 159)
                   \/ (b >= 238 /\ IsCont(b2)) ) THEN Bad(1)
            ELSE IF ~IsCont(b3) THEN Bad(2)
            ELSE Good(3)
     ELSE IF b >= 240 /\ b <= 244
       THEN IF ~ ( \/ (b = 240 /\ b2 >= 144 /\ b2 <= 191)
                   \/ (b >= 241 /\ b <= 243 /\ IsCont(b2))
                   \/ (b = 244 /\ b2 >= 128 /\ b2 <= 143) ) THEN Bad(1)
            ELSE IF ~IsCont(b3) THEN Bad(2)
            ELSE IF ~IsCont(b4) THEN Bad(3)
            ELSE Good(4)
     ELSE Bad(1)

\* U+FFFD
REPLACEMENT == <<239, 191, 189>>

RECURSIVE LossyFrom(_, _)
LossyFrom(s, i) ==
  IF i > Len(s) THEN <<>>
  ELSE LET c == Utf8Step(s, i)
       IN (IF c.valid THEN SubSeq(s, i, i + c.len - 1) ELSE REPLACEMENT)
          \o LossyFrom(s, i + c.len)

from_utf8_lossy(s) == LossyFrom(s, 1)

\* str::from_utf8(s).is_ok(): every byte that is no continuation byte starts
\* a well-formed character, and every continuation byte lies in one
Utf8Valid(s) ==
  \A i \in 1..Len(s) :
    IF ~IsCont(s[i]) THEN Utf8Step(s, i).valid
    ELSE \E l \in 1..(i - 1) :
           /\ i - l <= 3
           /\ ~IsCont(s[l])
           /\ \A m \in (l + 1)..i : IsCont(s[m])
           /\ Utf8Step(s, l).valid
           /\ l + Utf8Step(s, l).len > i


---------------------------------------------------------------------------
(* The inputs of the model: the keys and values the clients use.           *)

\* "a", "b"
LogKeys == {<<97>>, <<98>>}
\* "1", "2"
LogValues == {<<49>>, <<50>>}

\* "SET", "DEL"
SET_ENTRY == <<83, 69, 84>>
DEL_ENTRY == <<68, 69, 76>>

\* The digests of the messages the clients' calls hash, computed once.
Sha1Memo ==
  [m \in {SET_ENTRY \o k \o v : k \in LogKeys, v \in LogValues}
         \cup {DEL_ENTRY \o k : k \in LogKeys}
         \cup {<<97>>, <<98>>, <<99>>}
     |-> Sha1Compute(m)]

MemoOrCompute(memo, m) == IF m \in DOMAIN memo THEN memo[m] ELSE Sha1Compute(m)

\* Sha1::default(), update(..)*, finalize(): the digest of the concatenated
\* updates.
Sha1(m) == MemoOrCompute(Sha1Memo, m)

\* the length of a SHA-1 digest
DigestLen == 20

---------------------------------------------------------------------------
(* Section 1.3: LogEntry                                                   *)

SetEntry(k, v, c) == [tag |-> "Set", key |-> k, value |-> v, checksum |-> c]
DelEntry(k, c) == [tag |-> "Del", key |-> k, checksum |-> c]

Ok(e) == [ok |-> TRUE, entry |-> e]
Err(x) == [ok |-> FALSE, error |-> x]

\* received_hash.as_bytes() == expected_hash.as_slice(): equal lengths and
\* equal bytes, the expected hash being the digest of the hasher's updates
ChecksumMatches(received_hash, hashed) ==
  Len(received_hash) = DigestLen /\ received_hash = Sha1(hashed)

\* impl TryFrom<&str> for LogEntry
try_from(value) ==
  LET segments == Split(value, SP)
      n == Len(segments)
  IN IF n < 1 THEN Err("InvalidEntryFormat")
     ELSE IF n < 2 THEN Err("InvalidEntryFormat")
     ELSE IF segments[1] = SET_ENTRY
       THEN IF n < 3 THEN Err("InvalidEntryFormat")
            ELSE IF n < 4 THEN Err("InvalidEntryFormat")
            ELSE IF ~ChecksumMatches(segments[4],
                                     segments[1] \o segments[2] \o segments[3])
              THEN Err("IncorrectChecksum")
            ELSE Ok(SetEntry(segments[2], segments[2], segments[4]))
     ELSE IF segments[1] = DEL_ENTRY
       THEN IF n < 3 THEN Err("InvalidEntryFormat")
            ELSE IF ~ChecksumMatches(segments[3], segments[1] \o segments[2])
              THEN Err("IncorrectChecksum")
            ELSE Ok(DelEntry(segments[2], segments[3]))
     ELSE Err("InvalidDiscriminant")

create_set(key, value) ==
  SetEntry(key, value, from_utf8_lossy(Sha1(SET_ENTRY \o key \o value)))

create_delete(key) ==
  DelEntry(key, from_utf8_lossy(Sha1(DEL_ENTRY \o key)))

\* the line sync_entry formats for an entry
format_line(entry) ==
  IF entry.tag = "Set"
    THEN SET_ENTRY \o <<SP>> \o entry.key \o <<SP>> \o entry.value \o <<SP>>
         \o entry.checksum \o <<NL>>
    ELSE DEL_ENTRY \o <<SP>> \o entry.key \o <<SP>> \o entry.checksum \o <<NL>>

---------------------------------------------------------------------------
(* Section 1.3: AppendOnlyLogDB                                            *)

Some(v) == <<"Some", v>>
None == <<"None">>

\* entries.iter().rev().find(..): the index of the last entry with the key,
\* 0 when there is none
RECURSIVE rfind(_, _, _)
rfind(es, key, i) ==
  IF i = 0 THEN 0
  ELSE IF es[i].key = key THEN i
  ELSE rfind(es, key, i - 1)

\* a scan from the front instead: the index of the first entry with the key
relevant_entry_forward(es, key) ==
  IF \E i \in 1..Len(es) : es[i].key = key
    THEN Min({i \in 1..Len(es) : es[i].key = key})
    ELSE 0

relevant_entry(es, key) == rfind(es, key, Len(es))

\* relevant_entry.and_then(..)
value_of(es, i) ==
  IF i = 0 THEN None
  ELSE IF es[i].tag = "Set" THEN Some(es[i].value)
  ELSE None

\* AppendOnlyLogDB::get
get(es, key) == value_of(es, relevant_entry(es, key))

\* BufRead::read_line: the bytes up to and including the next newline, or
\* to the end of the file
NewlinesFrom(f, pos) == {q \in pos..Len(f) : f[q] = NL}

LineEnd(f, pos) ==
  IF NewlinesFrom(f, pos) = {} THEN Len(f) ELSE Min(NewlinesFrom(f, pos))

Opened(status, es, error) == [status |-> status, entries |-> es, error |-> error]

\* The loop of from_path.  `line` is never cleared, so each pass decodes all
\* that was read so far; the loop ends only when read_line fails (the bytes
\* read are not UTF-8) or try_from fails.
RECURSIVE from_path_loop(_, _, _, _)

\* let entry = LogEntry::try_from(line.as_str())?; entries.push(entry);
from_path_decode(f, next, read, line, acc, r) ==
  IF ~r.ok THEN Opened("err", <<>>, r.error)
  \* at the end of the file read_line returns Ok(0) and the same line decodes
  \* again, for ever
  ELSE IF read = <<>> THEN Opened("diverges", <<>>, "none")
  ELSE from_path_loop(f, next, line, Append(acc, r.entry))

\* while reader.read_line(&mut line).is_ok()
from_path_read(f, next, read, line, acc) ==
  IF ~Utf8Valid(read) THEN Opened("ok", acc, "none")
  ELSE from_path_decode(f, next, read, line \o read, acc, try_from(line \o read))

from_path_loop(f, pos, line, acc) ==
  from_path_read(f, LineEnd(f, pos) + 1, SubSeq(f, pos, LineEnd(f, pos)), line, acc)

\* AppendOnlyLogDB::from_path
from_path(f) == from_path_loop(f, 1, <<>>, <<>>)

\* the steps of sync_entry that can fail, and "ok" when none does
IoOutcomes == {"ok", "open", "flush", "sync"}

\* The bytes of the line that reach the file: none when the open fails, any
\* part of it when the flush of the BufWriter fails, all of it otherwise.
Written(line, io) ==
  CASE io = "open" -> {<<>>}
    [] io = "flush" -> {SubSeq(line, 1, n) : n \in 0..Len(line)}
    [] OTHER -> {line}

\* a return without forcing the file to stable storage
no_sync(io, content, before) == before

\* file.sync_all(): when it succeeds, the file's content is on stable storage
sync_all(io, content, before) == IF io = "ok" THEN content ELSE before

append_line(line, io) ==
  /\ \E w \in Written(line, io) : disk' = disk \o w
  /\ stable' = sync_all(io, disk', stable)
  /\ io_failures' = IF io = "ok" THEN io_failures ELSE io_failures + 1

\* AppendOnlyLogDB::sync_entry: open for append, format the line into the
\* BufWriter, flush it (into_inner), sync_all
sync_entry(entry, io) == append_line(format_line(entry), io)

NotOpened == [status |-> "none", entries |-> <<>>, error |-> "none",
              corrupt |-> FALSE, bad |-> FALSE]

Call(op, key, io, result) ==
  [op |-> op, key |-> key, io |-> io, before |-> entries, result |-> result]

\* sync_entry(&entry), then the entry put in front of the others
sync_and_push_front(entry, io) ==
  /\ sync_entry(entry, io)
  /\ entries' = <<entry>> \o entries

\* sync_entry(&entry), its result dropped, then self.entries.push(entry)
sync_and_push(entry, io) ==
  /\ sync_entry(entry, io)
  /\ entries' = Append(entries, entry)

\* AppendOnlyLogDB::set
Set(key, value, io) ==
  /\ sync_and_push(create_set(key, value), io)
  /\ last' = Call("set", key, io, "unit")
  /\ reopened' = NotOpened
  /\ UNCHANGED <<decoded, save_vars, hash_vars, sorted_vars>>

\* AppendOnlyLogDB::delete
Delete(key, io) ==
  /\ sync_and_push(create_delete(key), io)
  /\ last' = Call("delete", key, io, "unit")
  /\ reopened' = NotOpened
  /\ UNCHANGED <<decoded, save_vars, hash_vars, sorted_vars>>

\* AppendOnlyLogDB::get
Get(key) ==
  /\ last' = Call("get", key, "ok", get(entries, key))
  /\ UNCHANGED <<entries, disk, stable, io_failures, reopened>>
  /\ UNCHANGED <<decoded, save_vars, hash_vars, sorted_vars>>

\* The checksum field of a line is its last space-separated field: the
\* positions of the file that lie in one.
Separators(f) == {q \in 1..Len(f) : f[q] \in {SP, NL}}

\* p lies after a space and before the newline that ends its line
InChecksumField(f, p, seps) ==
  /\ p \notin seps
  /\ \E q \in seps : q < p /\ f[q] = SP /\ \A r \in seps : ~(q < r /\ r < p)
  /\ \E q \in seps : q > p /\ f[q] = NL /\ \A r \in seps : ~(p < r /\ r < q)

ChecksumPositions(f) == {p \in 1..Len(f) : InChecksumField(f, p, Separators(f))}

\* the values a damaged byte may take: newline, space, "A", and a byte that
\* no UTF-8 text contains
CorruptBytes == {NL, SP, 65, 255}

\* Does a record line carry a checksum field that differs from the digest of
\* its discriminant, key and (for SET) value?
FieldsChecksumDiffers(fields) ==
  \/ /\ Len(fields) >= 4
     /\ fields[1] = SET_ENTRY
     /\ ~ChecksumMatches(fields[4], fields[1] \o fields[2] \o fields[3])
  \/ /\ Len(fields) >= 3
     /\ fields[1] = DEL_ENTRY
     /\ ~ChecksumMatches(fields[3], fields[1] \o fields[2])

AnyChecksumDiffers(lines) ==
  \E i \in 1..Len(lines) : FieldsChecksumDiffers(Split(lines[i], SP))

HasBadChecksum(f) == AnyChecksumDiffers(Split(f, NL))

OpenedFile(r, corrupt, bad) ==
  [status |-> r.status, entries |-> r.entries, error |-> r.error,
   corrupt |-> corrupt, bad |-> bad]

\* AppendOnlyLogDB::from_path on the backing file, whose bytes are `f`: the
\* file as written, or with one byte of a checksum field damaged
FromPath(f, corrupt) ==
  /\ reopened' = OpenedFile(from_path(f), corrupt, HasBadChecksum(f))
  /\ UNCHANGED <<entries, disk, stable, io_failures, last>>
  /\ UNCHANGED <<decoded, save_vars, hash_vars, sorted_vars>>

Reopen == FromPath(disk, FALSE)

\* the bound on the number of calls that append
MaxEntries == 3
\* the bound on the number of injected I/O failures
MaxFailures == 1
\* the bound on the number of lines of a file that is damaged and reopened
MaxDamagedLines == 2

ReopenDamaged ==
  /\ Len(entries) <= MaxDamagedLines
  /\ \E p \in ChecksumPositions(disk) : \E b \in CorruptBytes \ {disk[p]} :
       FromPath([disk EXCEPT ![p] = b], TRUE)

\* the bound on the number of space-separated fields of a line to decode
MaxFields == 3

\* "SET", "DEL", "FOO", "a", ""
LineFields == {SET_ENTRY, DEL_ENTRY, <<70, 79, 79>>, <<97>>, <<>>}

\* the fields with a space between each two
RECURSIVE join(_)
join(fields) ==
  IF Len(fields) = 1 THEN fields[1]
  ELSE join(SubSeq(fields, 1, Len(fields) - 1)) \o <<SP>> \o fields[Len(fields)]

NotDecoded == [applied |-> FALSE, line |-> <<>>, result |-> Err("none")]

\* LogEntry::try_from(line) for a line of the given fields
decode_line(line) ==
  /\ decoded' = [applied |-> TRUE, line |-> line, result |-> try_from(line)]
  /\ UNCHANGED <<entries, disk, stable, io_failures, last, reopened>>
  /\ UNCHANGED <<save_vars, hash_vars, sorted_vars>>

Decode ==
  \E n \in 1..MaxFields : \E fields \in [1..n -> LineFields] :
    decode_line(join(fields))

\* the store AppendOnlyLogDB::new returns
LogNew ==
  /\ entries = <<>>
  /\ disk = <<>>
  /\ stable = <<>>
  /\ io_failures = 0
  /\ last = [op |-> "new", key |-> <<>>, io |-> "ok", before |-> <<>>,
             result |-> "unit"]
  /\ reopened = NotOpened
  /\ decoded = NotDecoded

SetOk ==
  \E k \in LogKeys, v \in LogValues :
    Len(entries) < MaxEntries /\ Set(k, v, "ok")

DeleteOk ==
  \E k \in LogKeys :
    Len(entries) < MaxEntries /\ Delete(k, "ok")

GetAny == \E k \in LogKeys : Get(k)

SetFails ==
  \E k \in LogKeys, v \in LogValues, io \in IoOutcomes \ {"ok"} :
    Len(entries) < MaxEntries /\ io_failures < MaxFailures /\ Set(k, v, io)

DeleteFails ==
  \E k \in LogKeys, io \in IoOutcomes \ {"ok"} :
    Len(entries) < MaxEntries /\ io_failures < MaxFailures /\ Delete(k, io)

---------------------------------------------------------------------------
(* Section 1.2: save_data2, and a reader of the path it replaces           *)

\* the path save_data2 is given
Target == <<"data">>

\* the bound on the random u8 that ends the temporary file's name
MaxSuffix == 1
\* the bound on the number of save_data2 calls
MaxSaves == 2

\* "old", "new", "next"
SaveData == {<<111, 108, 100>>, <<110, 101, 119>>, <<110, 101, 120, 116>>}

\* the path a writer that works in place would open: the target itself
temp_file_path_in_place(path, n) == path

\* format!("{}.tmp.{}", path.to_string_lossy(), random::<u8>())
temp_file_path(path, n) == path \o <<"tmp", n>>

Paths == {Target} \cup {temp_file_path(Target, n) : n \in 0..MaxSuffix}

NoInode == 0

\* what a reader of the target ends with: all the bytes it read, or NotFound
Found(bytes) == <<"Found", bytes>>
NotFound == <<"NotFound">>

WriterIdle == [pc |-> "idle", data |-> <<>>, temp |-> Target, ino |-> NoInode,
               written |-> 0]

ReaderAt(pc, ino, buf, obs) == [pc |-> pc, ino |-> ino, buf |-> buf, obs |-> obs]

ReaderIdle == ReaderAt("idle", NoInode, <<>>, NotFound)

\* the inode File::create(p) opens: the one p names, or a fresh one
created_inode(p) == IF fs[p] = NoInode THEN Len(inodes) + 1 ELSE fs[p]

\* File::create(p): make the file, or truncate the one that is there
file_create(p) ==
  IF fs[p] = NoInode
    THEN /\ inodes' = Append(inodes, <<>>)
         /\ fs' = [fs EXCEPT ![p] = Len(inodes) + 1]
    ELSE /\ inodes' = [inodes EXCEPT ![fs[p]] = <<>>]
         /\ fs' = fs

\* save_data2 up to File::create(&temp_file_path)
save_create(data, temp) ==
  /\ file_create(temp)
  /\ writer' = [pc |-> "write", data |-> data, temp |-> temp,
                ino |-> created_inode(temp), written |-> 0]
  /\ versions' = versions \cup {Found(data)}
  /\ saves' = saves + 1
  /\ UNCHANGED reader

SaveCreate ==
  \E data \in SaveData, n \in 0..MaxSuffix :
    /\ writer.pc = "idle"
    /\ saves < MaxSaves
    /\ save_create(data, temp_file_path(Target, n))
    /\ UNCHANGED <<log_vars, hash_vars, sorted_vars>>

\* one write(2) of temp_file.write_all(data): some of the bytes that remain
SaveWrite ==
  /\ writer.pc = "write"
  /\ writer.written < Len(writer.data)
  /\ \E k \in 1..(Len(writer.data) - writer.written) :
       /\ inodes' = [inodes EXCEPT ![writer.ino] =
                       SubSeq(@, 1, writer.written)
                       \o SubSeq(writer.data, writer.written + 1,
                                 writer.written + k)]
       /\ writer' = [writer EXCEPT !.written = @ + k]
  /\ UNCHANGED <<fs, reader, versions, saves>>
  /\ UNCHANGED <<log_vars, hash_vars, sorted_vars>>

\* temp_file.sync_all()
SaveSync ==
  /\ writer.pc = "write"
  /\ writer.written = Len(writer.data)
  /\ writer' = [writer EXCEPT !.pc = "rename"]
  /\ UNCHANGED <<fs, inodes, reader, versions, saves>>
  /\ UNCHANGED <<log_vars, hash_vars, sorted_vars>>

\* rename(from, to): `to` names the file `from` named, `from` names nothing
renamed(from, to) ==
  IF from = to THEN fs ELSE [fs EXCEPT ![to] = fs[from], ![from] = NoInode]

\* fs::rename(temp_file_path, path), and save_data2 returns Ok
SaveRename ==
  /\ writer.pc = "rename"
  /\ fs' = renamed(writer.temp, Target)
  /\ writer' = WriterIdle
  /\ UNCHANGED <<inodes, reader, versions, saves>>
  /\ UNCHANGED <<log_vars, hash_vars, sorted_vars>>

\* write_all, sync_all or rename fails and `?` returns the error: the
\* temporary file stays as it is
SaveFails ==
  /\ writer.pc \in {"write", "rename"}
  /\ writer' = WriterIdle
  /\ UNCHANGED <<fs, inodes, reader, versions, saves>>
  /\ UNCHANGED <<log_vars, hash_vars, sorted_vars>>

\* a reader opens the target path: it holds the file the path names now
ReadOpen ==
  /\ reader.pc = "idle"
  /\ reader' = IF fs[Target] = NoInode
                 THEN ReaderAt("done", NoInode, <<>>, NotFound)
                 ELSE ReaderAt("read", fs[Target], <<>>, NotFound)
  /\ UNCHANGED <<fs, inodes, writer, versions, saves>>
  /\ UNCHANGED <<log_vars, hash_vars, sorted_vars>>

\* the bytes of the open file from the reader's position on
unread(content, pos) == SubSeq(content, pos + 1, Len(content))

\* one read(2): some of the bytes from the reader's position on, or the end
\* of the file, where the reader has all it will see
read_chunk(rest) ==
  IF rest = <<>>
    THEN reader' = ReaderAt("done", reader.ino, reader.buf, Found(reader.buf))
    ELSE \E k \in 1..Len(rest) :
           reader' = [reader EXCEPT !.buf = @ \o SubSeq(rest, 1, k)]

ReadChunk ==
  /\ reader.pc = "read"
  /\ read_chunk(unread(inodes[reader.ino], Len(reader.buf)))
  /\ UNCHANGED <<fs, inodes, writer, versions, saves>>
  /\ UNCHANGED <<log_vars, hash_vars, sorted_vars>>

ReadClose ==
  /\ reader.pc = "done"
  /\ reader' = ReaderIdle
  /\ UNCHANGED <<fs, inodes, writer, versions, saves>>
  /\ UNCHANGED <<log_vars, hash_vars, sorted_vars>>

\* the directory with the target holding `content`, nobody at work
SaveStartsWith(content) ==
  /\ fs = [p \in Paths |-> IF p = Target THEN 1 ELSE NoInode]
  /\ inodes = <<content>>
  /\ writer = WriterIdle
  /\ reader = ReaderIdle
  /\ versions = {Found(content)}
  /\ saves = 0

\* the directory without the target
SaveStartsEmpty ==
  /\ fs = [p \in Paths |-> NoInode]
  /\ inodes = <<>>
  /\ writer = WriterIdle
  /\ reader = ReaderIdle
  /\ versions = {NotFound}
  /\ saves = 0

SaveIdle == SaveStartsEmpty

---------------------------------------------------------------------------
(* Section 2.2: Hashtable                                                  *)

\* "a", "b", "c"
HashKeys == {<<97>>, <<98>>, <<99>>}
\* "1", "2"
HashValues == {<<49>>, <<50>>}

\* the bound on the capacity the table is built with
MaxCapacity == 3
\* the bound on the size counter at which insert is still called
MaxSize == 3

HashtableEntry(key, value) == [key |-> key, value |-> value]

Hashtable(inner, size, panicked) ==
  [inner |-> inner, size |-> size, panicked |-> panicked]

\* Hashtable::with_capacity: vec![None; capacity], size 0
with_capacity(capacity) ==
  Hashtable([i \in 1..capacity |-> None], 0, FALSE)

\* hash_key: the first 8 bytes of the key's SHA-1 digest, which the code
\* reads as a big-endian u64 (usize has 64 bits)
hash_key(key) == SubSeq(Sha1(key), 1, 8)

HornerStep(acc, byte, len) == (acc * 256 + byte) % len

\* n % len, for the number n whose big-endian bytes are h
start_idx(h, len) ==
  HornerStep(HornerStep(HornerStep(HornerStep(HornerStep(HornerStep(
    HornerStep(HornerStep(0, h[1], len), h[2], len), h[3], len), h[4], len),
    h[5], len), h[6], len), h[7], len), h[8], len)

\* the slot the probe looks at after `offset` steps: inner[(start + offset) % len]
probe(inner, start, offset) == inner[((start + offset) % Len(inner)) + 1]

\* the probe offsets at which the slot is empty
free_offsets(inner, start) ==
  {o \in 0..(Len(inner) - 1) : probe(inner, start, o) = None}

\* a table that grows only when it is more than full
exceeds_capacity(size, len) == size * 100 > 100 * len

\* (size as f64) / (len as f64) > 0.66
exceeds_occupancy(size, len) == size * 100 > 66 * len

\* self.inner[idx] = Some(entry); self.size += 1
placed(t, idx, key, value) ==
  Hashtable([t.inner EXCEPT ![idx + 1] = Some(HashtableEntry(key, value))],
            t.size + 1, t.panicked)

\* entries.into_iter().flatten(): the entries of the occupied slots, in order
flatten(inner) == SelectSeq(inner, LAMBDA slot : slot # None)

RECURSIVE ht_insert(_, _, _)
RECURSIVE reinsert(_, _, _)

\* for_each(|entry| self.insert(entry.key, entry.value))
reinsert(t, es, i) ==
  IF i > Len(es) \/ t.panicked THEN t
  ELSE reinsert(ht_insert(t, es[i][2].key, es[i][2].value), es, i + 1)

\* Hashtable::rehash
rehash(t, new_capacity) ==
  reinsert(with_capacity(new_capacity), flatten(t.inner), 1)

\* an insert that never grows the table
never_grown(t) == t

\* if occupancy_rate > 0.66 { self.rehash(self.size * 2) }
grown(t) ==
  IF exceeds_occupancy(t.size, Len(t.inner)) THEN rehash(t, t.size * 2) ELSE t

\* the loop of insert: the first empty slot of the probe takes the entry;
\* with no empty slot, panic!("out of memory")
insert_probe(t, key, value, start, free) ==
  IF free = {} THEN Hashtable(t.inner, t.size, TRUE)
  ELSE grown(placed(t, (start + Min(free)) % Len(t.inner), key, value))

insert_at(t, key, value, start) ==
  insert_probe(t, key, value, start, free_offsets(t.inner, start))

\* Hashtable::insert
ht_insert(t, key, value) ==
  insert_at(t, key, value, start_idx(hash_key(key), Len(t.inner)))

\* the probe offsets at which get returns: an empty slot, or the key's slot
get_stops(inner, start, key) ==
  {o \in 0..(Len(inner) - 1) :
     \/ probe(inner, start, o) = None
     \/ probe(inner, start, o)[2].key = key}

get_slot(slot) == IF slot = None THEN None ELSE Some(slot[2].value)

get_probe(inner, start, stops) ==
  IF stops = {} THEN None ELSE get_slot(probe(inner, start, Min(stops)))

get_at(inner, start, key) ==
  get_probe(inner, start, get_stops(inner, start, key))

\* Hashtable::get
ht_get(t, key) == get_at(t.inner, start_idx(hash_key(key), Len(t.inner)), key)

\* the probe offsets at which the slot holds the key
key_offsets(inner, start, key) ==
  {o \in 0..(Len(inner) - 1) :
     /\ probe(inner, start, o) # None
     /\ probe(inner, start, o)[2].key = key}

\* self.inner[idx].take(); self.size -= 1; the table and the value returned
taken(t, idx) ==
  [table |-> Hashtable([t.inner EXCEPT ![idx + 1] = None], t.size - 1,
                       t.panicked),
   result |-> Some(t.inner[idx + 1][2].value)]

delete_probe(t, start, hits) ==
  IF hits = {} THEN [table |-> t, result |-> None]
  ELSE taken(t, (start + Min(hits)) % Len(t.inner))

delete_at(t, key, start) ==
  delete_probe(t, start, key_offsets(t.inner, start, key))

\* Hashtable::delete
ht_delete(t, key) ==
  delete_at(t, key, start_idx(hash_key(key), Len(t.inner)))

\* the slots of the table that hold the key
slots_of(t, key) ==
  {i \in 1..Len(t.inner) : t.inner[i] # None /\ t.inner[i][2].key = key}

HtCall(op, key, result) ==
  [op |-> op, key |-> key, result |-> result, size_before |-> ht.size,
   capacity_before |-> Len(ht.inner), held |-> slots_of(ht, key) # {},
   expected |-> ht_map[key]]

HtInsert ==
  \E k \in HashKeys, v \in HashValues :
    /\ ~ht.panicked
    /\ ht.size < MaxSize
    /\ ht' = ht_insert(ht, k, v)
    /\ ht_map' = [ht_map EXCEPT ![k] = Some(v)]
    /\ ht_last' = HtCall("insert", k, None)
    /\ UNCHANGED ht_deleted
    /\ UNCHANGED <<log_vars, save_vars, sorted_vars>>

HtGet ==
  \E k \in HashKeys :
    /\ ~ht.panicked
    /\ ht_last' = HtCall("get", k, ht_get(ht, k))
    /\ UNCHANGED <<ht, ht_map, ht_deleted>>
    /\ UNCHANGED <<log_vars, save_vars, sorted_vars>>

HtDelete ==
  \E k \in HashKeys :
    /\ ~ht.panicked
    /\ ht' = ht_delete(ht, k).table
    /\ ht_map' = [ht_map EXCEPT ![k] = None]
    /\ ht_last' = HtCall("delete", k, ht_delete(ht, k).result)
    /\ ht_deleted' = TRUE
    /\ UNCHANGED <<log_vars, save_vars, sorted_vars>>

\* a new table of the given capacity, no call made yet
HashNew(capacity) ==
  /\ ht = with_capacity(capacity)
  /\ ht_map = [k \in HashKeys |-> None]
  /\ ht_last = [op |-> "new", key |-> <<>>, result |-> None, size_before |-> 0,
                capacity_before |-> capacity, held |-> FALSE,
                expected |-> None]
  /\ ht_deleted = FALSE

HashIdle == HashNew(1)

---------------------------------------------------------------------------
(* Section 2.3: SortedArray                                                *)

\* "a", "ab", "b", "c"
SortedKeys == {<<97>>, <<97, 98>>, <<98>>, <<99>>}
\* "1", "2"
SortedValues == {<<49>>, <<50>>}

SortedArrayEntry(key, value) == [key |-> key, value |-> value]

\* the positions at which two strings differ
differing(a, b) == {i \in 1..Min({Len(a), Len(b)}) : a[i] # b[i]}

Ordering(x, y) == IF x < y THEN "Less" ELSE IF x > y THEN "Greater" ELSE "Equal"

\* str::cmp: by the first byte that differs, else by length
str_cmp(a, b) ==
  IF differing(a, b) = {} THEN Ordering(Len(a), Len(b))
  ELSE Ordering(a[Min(differing(a, b))], b[Min(differing(a, b))])

\* Vec::push in the place of Vec::insert: the element goes to the end
vec_push(v, idx, e) == Append(v, e)

\* Vec::insert(idx, e), idx counted from 0
vec_insert(v, idx, e) == SubSeq(v, 1, idx) \o <<e>> \o SubSeq(v, idx + 1, Len(v))

\* Vec::remove(idx), idx counted from 0
vec_remove(v, idx) == SubSeq(v, 1, idx) \o SubSeq(v, idx + 2, Len(v))

\* the bound on the number of results of get_range that are kept
MaxResults == 3

\* A call: its arguments (key, value, key_to), its local variables (left,
\* right, middle, idx, results), what it returned (result), what the map of
\* the calls so far binds its key to (expected), the call that returned last
\* (done), and the parity of the loop passes it has taken (passes).
SaCall(op, key, value, left, right, middle, done) ==
  [op |-> op, key |-> key, value |-> value, left |-> left, right |-> right,
   middle |-> middle, done |-> done, key_to |-> <<>>, idx |-> 0,
   results |-> <<>>, result |-> None, expected |-> None, passes |-> 0]

\* no call in progress; `done` names the call that returned last
SaReturned(done) == SaCall("idle", <<>>, <<>>, 0, 0, 0, done)

\* the call in progress returns `result`; its arguments stay on record
SaReturns(result) ==
  [sa_call EXCEPT !.op = "idle", !.done = sa_call.op, !.result = result]

\* the loop goes round: `middle` is set, and `left` or `right` takes it
SaPass(middle, ordering) ==
  IF ordering = "Less"
    THEN [sa_call EXCEPT !.middle = middle, !.left = middle,
                         !.passes = 1 - @]
    ELSE [sa_call EXCEPT !.middle = middle, !.right = middle,
                         !.passes = 1 - @]

\* SortedArray::insert up to the loop
SaInsertBegin ==
  \E k \in SortedKeys, v \in SortedValues :
    /\ sa_call.op = "idle"
    /\ sa_call' = SaCall("insert", k, v, 0, Len(sa_inner), Len(sa_inner) \div 2,
                         sa_call.done)
    /\ UNCHANGED <<sa_inner, sa_map>>
    /\ UNCHANGED <<log_vars, save_vars, hash_vars>>

\* one pass of the loop of insert, comparing the entry at `middle`
insert_pass(middle, ordering) ==
  IF ordering = "Equal"
    THEN /\ sa_inner' = [sa_inner EXCEPT ![middle + 1] =
                           SortedArrayEntry(sa_call.key, sa_call.value)]
         /\ sa_call' = SaReturned("insert")
         /\ sa_map' = [sa_map EXCEPT ![sa_call.key] = Some(sa_call.value)]
  ELSE /\ sa_call' = SaPass(middle, ordering)
       /\ UNCHANGED <<sa_inner, sa_map>>

insert_compare(middle) ==
  insert_pass(middle, str_cmp(sa_inner[middle + 1].key, sa_call.key))

SaInsertLoop ==
  /\ sa_call.op = "insert"
  /\ sa_call.left < sa_call.right
  /\ insert_compare((sa_call.left + sa_call.right) \div 2)
  /\ UNCHANGED <<log_vars, save_vars, hash_vars>>

\* self.inner.insert(middle, new_entry) after the loop
SaInsertEnd ==
  /\ sa_call.op = "insert"
  /\ ~(sa_call.left < sa_call.right)
  /\ sa_inner' = vec_insert(sa_inner, sa_call.middle,
                            SortedArrayEntry(sa_call.key, sa_call.value))
  /\ sa_call' = SaReturned("insert")
  /\ sa_map' = [sa_map EXCEPT ![sa_call.key] = Some(sa_call.value)]
  /\ UNCHANGED <<log_vars, save_vars, hash_vars>>

\* a call that runs find_key, up to its loop
find_key_call(op, key, key_to) ==
  [SaCall(op, key, <<>>, 0, Len(sa_inner), 0, sa_call.done)
     EXCEPT !.key_to = key_to, !.expected = sa_map[key]]

\* SortedArray::delete up to the loop of find_key
SaDeleteBegin ==
  \E k \in SortedKeys :
    /\ sa_call.op = "idle"
    /\ sa_call' = find_key_call("delete", k, <<>>)
    /\ UNCHANGED <<sa_inner, sa_map>>
    /\ UNCHANGED <<log_vars, save_vars, hash_vars>>

\* SortedArray::get up to the loop of find_key
SaGetBegin ==
  \E k \in SortedKeys :
    /\ sa_call.op = "idle"
    /\ sa_call' = find_key_call("get", k, <<>>)
    /\ UNCHANGED <<sa_inner, sa_map>>
    /\ UNCHANGED <<log_vars, save_vars, hash_vars>>

\* SortedArray::get_range up to the loop of find_key(key_from)
SaRangeBegin ==
  \E key_from \in SortedKeys, key_to \in SortedKeys :
    /\ sa_call.op = "idle"
    /\ sa_call' = find_key_call("get_range", key_from, key_to)
    /\ UNCHANGED <<sa_inner, sa_map>>
    /\ UNCHANGED <<log_vars, save_vars, hash_vars>>

\* key_from > key_to
str_gt(a, b) == str_cmp(a, b) = "Greater"

\* find_key returned Some(idx) to its caller: delete removes the entry and
\* returns its value, get returns the value, get_range returns no results
\* when key_from > key_to and else enters its loop at idx
found(idx) ==
  IF sa_call.op = "delete"
    THEN /\ sa_inner' = vec_remove(sa_inner, idx)
         /\ sa_call' = SaReturns(Some(sa_inner[idx + 1].value))
         /\ sa_map' = [sa_map EXCEPT ![sa_call.key] = None]
  ELSE IF sa_call.op = "get"
    THEN /\ sa_call' = SaReturns(Some(sa_inner[idx + 1].value))
         /\ UNCHANGED <<sa_inner, sa_map>>
  ELSE IF str_gt(sa_call.key, sa_call.key_to)
    THEN /\ sa_call' = SaReturns(None)
         /\ UNCHANGED <<sa_inner, sa_map>>
  ELSE /\ sa_call' = [sa_call EXCEPT !.op = "range", !.idx = idx]
       /\ UNCHANGED <<sa_inner, sa_map>>

\* one pass of the loop of find_key
find_pass(middle, ordering) ==
  IF ordering = "Equal"
    THEN found(middle)
  ELSE /\ sa_call' = SaPass(middle, ordering)
       /\ UNCHANGED <<sa_inner, sa_map>>

find_compare(middle) ==
  find_pass(middle, str_cmp(sa_inner[middle + 1].key, sa_call.key))

SaFindLoop ==
  /\ sa_call.op \in {"delete", "get", "get_range"}
  /\ sa_call.left < sa_call.right
  /\ find_compare((sa_call.left + sa_call.right) \div 2)
  /\ UNCHANGED <<log_vars, save_vars, hash_vars>>

\* find_key returns None: delete and get return None, get_range returns no
\* results
SaFindEnd ==
  /\ sa_call.op \in {"delete", "get", "get_range"}
  /\ ~(sa_call.left < sa_call.right)
  /\ sa_call' = SaReturns(None)
  /\ sa_map' = IF sa_call.op = "delete"
                 THEN [sa_map EXCEPT ![sa_call.key] = None]
                 ELSE sa_map
  /\ UNCHANGED sa_inner
  /\ UNCHANGED <<log_vars, save_vars, hash_vars>>

\* results.push(entry.value), of which the first MaxResults are kept
pushed(results, value) ==
  IF Len(results) < MaxResults THEN Append(results, value) ELSE results

\* one pass of `while let Some(entry) = self.inner.get(idx)`: idx is never
\* advanced
range_pass(idx) ==
  IF idx < Len(sa_inner)
    THEN IF str_gt(sa_inner[idx + 1].key, sa_call.key_to)
           THEN sa_call' = [sa_call EXCEPT !.passes = 1 - @]
           ELSE sa_call' = [sa_call EXCEPT
                              !.results = pushed(@, sa_inner[idx + 1].value),
                              !.passes = 1 - @]
    ELSE sa_call' = [sa_call EXCEPT !.op = "idle", !.done = "get_range"]

SaRangeLoop ==
  /\ sa_call.op = "range"
  /\ range_pass(sa_call.idx)
  /\ UNCHANGED <<sa_inner, sa_map>>
  /\ UNCHANGED <<log_vars, save_vars, hash_vars>>

\* SortedArray::default()
SortedIdle ==
  /\ sa_inner = <<>>
  /\ sa_call = SaReturned("none")
  /\ sa_map = [k \in SortedKeys |-> None]

---------------------------------------------------------------------------
(* Specifications                                                          *)

InitLog == LogNew /\ SaveIdle /\ HashIdle /\ SortedIdle

\* the log store when every I/O step succeeds
NextLog == SetOk \/ DeleteOk \/ GetAny \/ Reopen

SpecLog == InitLog /\ [][NextLog]_vars

\* the log store reopened from a file with a damaged checksum field
NextLogDamaged == NextLog \/ ReopenDamaged

SpecLogDamaged == InitLog /\ [][NextLogDamaged]_vars

\* the log store with I/O failures in sync_entry
NextLogIo == NextLog \/ SetFails \/ DeleteFails

SpecLogIo == InitLog /\ [][NextLogIo]_vars

\* LogEntry::try_from on lines of up to MaxFields fields
SpecDecode == InitLog /\ [][Decode]_vars

\* save_data2 and a reader of the target, the target being there or not
InitSave ==
  /\ LogNew /\ HashIdle /\ SortedIdle
  /\ SaveStartsEmpty \/ \E content \in SaveData : SaveStartsWith(content)

NextSave ==
  \/ SaveCreate \/ SaveWrite \/ SaveSync \/ SaveRename \/ SaveFails
  \/ ReadOpen \/ ReadChunk \/ ReadClose

SpecSave == InitSave /\ [][NextSave]_vars

\* the Hashtable under insert, get and delete
InitHash ==
  /\ LogNew /\ SaveIdle /\ SortedIdle
  /\ \E capacity \in 1..MaxCapacity : HashNew(capacity)

NextHash == HtInsert \/ HtGet \/ HtDelete

SpecHash == InitHash /\ [][NextHash]_vars

\* the SortedArray under insert and delete, one loop pass at a time
InitSorted == LogNew /\ SaveIdle /\ HashIdle /\ SortedIdle

NextSorted ==
  \/ SaInsertBegin \/ SaInsertLoop \/ SaInsertEnd
  \/ SaDeleteBegin \/ SaFindLoop \/ SaFindEnd
  \/ SaGetBegin \/ SaRangeBegin \/ SaRangeLoop

SpecSorted == InitSorted /\ [][NextSorted]_vars

\* the steps of a call in progress: the thread that runs it keeps running
SaRun ==
  SaInsertLoop \/ SaInsertEnd \/ SaFindLoop \/ SaFindEnd \/ SaRangeLoop

\* the SortedArray with every call in progress taking its steps
SpecSortedFair == InitSorted /\ [][NextSorted]_vars /\ WF_vars(SaRun)

---------------------------------------------------------------------------
(* Properties of the log store                                             *)

Max(S) == CHOOSE x \in S : \A y \in S : y <= x

Mentions(es, k) == {i \in 1..Len(es) : es[i].key = k}

\* what the most recent entry mentioning k says k is bound to
MostRecent(es, k) ==
  IF Mentions(es, k) = {} THEN None
  ELSE IF es[Max(Mentions(es, k))].tag = "Set"
    THEN Some(es[Max(Mentions(es, k))].value)
  ELSE None

\* C1: get(k) returns Some(v) exactly when the most recent entry mentioning
\* k is Set(k, v), and None when it is a Del or when no entry mentions k;
\* this holds of the result of every get call and of every key in every
\* state.
C1_LastWriterWins ==
  /\ last.op = "get" => last.result = MostRecent(last.before, last.key)
  /\ \A k \in LogKeys : get(entries, k) = MostRecent(entries, k)

\* C1: a get that returned the later of two different values set for its key
C1_Witness ==
  /\ last.op = "get"
  /\ \E i, j \in 1..Len(entries) :
       /\ i < j
       /\ entries[i].tag = "Set" /\ entries[i].key = last.key
       /\ entries[j].tag = "Set" /\ entries[j].key = last.key
       /\ entries[i].value # entries[j].value
       /\ j = Max(Mentions(entries, last.key))
       /\ last.result = Some(entries[j].value)

\* C2: opening the file the store wrote without I/O failure succeeds, and
\* the reopened store answers get(k) as the store that wrote the file does,
\* for every key k.
C2_RecoveryReplay ==
  (reopened.status # "none" /\ ~reopened.corrupt) =>
    /\ reopened.status = "ok"
    /\ \A k \in LogKeys : get(reopened.entries, k) = get(entries, k)

\* C3: decoding the line sync_entry writes for a record built by create_set
\* or create_delete returns Ok with a record equal to the original.
C3_ChecksumRoundTrip ==
  \A i \in 1..Len(entries) :
    try_from(format_line(entries[i])) = Ok(entries[i])

\* C4: when the checksum field of some record line of the file differs from
\* the digest of the line's other fields, from_path fails with
\* IncorrectChecksum and returns no store.
C4_CorruptionDetected ==
  (reopened.status # "none" /\ reopened.bad) =>
    (reopened.status = "err" /\ reopened.error = "IncorrectChecksum")

\* C5: when the append of a record to the file fails during set or delete,
\* the in-memory entries are what they were before the call.
C5_FailedWriteLeavesMemory ==
  (last.op \in {"set", "delete"} /\ last.io # "ok") => entries = last.before

\* the encoded lines of the entries, in order
RECURSIVE encoded_lines(_)
encoded_lines(es) ==
  IF es = <<>> THEN <<>>
  ELSE encoded_lines(SubSeq(es, 1, Len(es) - 1)) \o format_line(es[Len(es)])

\* C13: when no I/O step fails, in the state in which set or delete returns
\* (and from create on) the content of the backing file on stable storage is
\* exactly the encoded lines of the in-memory entries, in order.
C13_DurableAppend ==
  /\ stable = encoded_lines(entries)
  /\ disk = stable

\* C13: a delete has returned after other appends, and all their lines are
\* on stable storage
C13_Witness ==
  /\ last.op = "delete"
  /\ last.io = "ok"
  /\ Len(entries) >= 2
  /\ entries[1].tag = "Set"
  /\ stable = encoded_lines(entries)
  /\ Len(stable) > Len(format_line(entries[1]))

\* the tag of the record a call of the operation pushes
TagOf(op) == IF op = "set" THEN "Set" ELSE "Del"

\* the records after are the records before, in their order, and one record
\* of the operation on the key at the end
ExtendedByOne(before, after, op, key) ==
  /\ Len(after) = Len(before) + 1
  /\ SubSeq(after, 1, Len(before)) = before
  /\ after[Len(after)].tag = TagOf(op)
  /\ after[Len(after)].key = key

\* C19: each set or delete call, its write failing or not, extends entries
\* by exactly one record of its kind at the end and leaves the records before
\* it and their order unchanged; entries and the backing file change in no
\* other step, and a get changes neither.
C19_AppendOnly ==
  [][/\ (last'.op \in {"set", "delete"} /\ last' # last) =>
          ExtendedByOne(entries, entries', last'.op, last'.key)
     /\ (entries' # entries \/ disk' # disk \/ stable' # stable) =>
          (last'.op \in {"set", "delete"} /\ last' # last)
     /\ (last'.op = "get" /\ last' # last) =>
          UNCHANGED <<entries, disk, stable>>]_vars

\* a delete has pushed a Del record behind a Set record and a get has then
\* returned, the records as the delete left them
C19_Witness ==
  /\ last.op = "get"
  /\ Len(entries) >= 2
  /\ entries[1].tag = "Set"
  /\ entries[Len(entries)].tag = "Del"
  /\ entries = last.before

LeadingField(line) == Split(line, SP)[1]

\* C18: try_from on a line whose leading field is neither SET nor DEL fails
\* with InvalidDiscriminant, whatever the number of fields that follow;
\* InvalidEntryFormat is returned only for lines whose tag is SET or DEL.
C18_ErrorClassification ==
  decoded.applied =>
    /\ LeadingField(decoded.line) \notin {SET_ENTRY, DEL_ENTRY} =>
         decoded.result = Err("InvalidDiscriminant")
    /\ decoded.result = Err("InvalidEntryFormat") =>
         LeadingField(decoded.line) \in {SET_ENTRY, DEL_ENTRY}

---------------------------------------------------------------------------
(* Properties of save_data2                                                *)

\* C6: a reader of the target path that runs while save_data2 takes its
\* steps ends with the complete content the target held before or the
\* complete content a save was given (or NotFound when the target was not
\* there), never with a partial or mixed byte sequence.
C6_AtomicReplaceVisibility ==
  reader.pc = "done" => reader.obs \in versions

\* C6: a reader that opened the target before a rename and read to the end
\* after it: it holds a complete content that the target no longer has
C6_Witness ==
  /\ reader.pc = "done"
  /\ reader.obs # NotFound
  /\ reader.obs \in versions
  /\ fs[Target] # NoInode
  /\ fs[Target] # reader.ino
  /\ Found(inodes[fs[Target]]) # reader.obs

---------------------------------------------------------------------------
(* Properties of the Hashtable                                             *)

\* C7: get(k) returns Some(v) for the v of the most recent insert(k, v) as
\* long as delete(k) was not called since, and None after delete(k) until k
\* is inserted again.
C7_HashRoundTrip ==
  ht_last.op = "get" => ht_last.result = ht_last.expected

\* C8: with no delete called so far, size * 100 <= 66 * capacity in the
\* state reached when an insert returns (capacity being the length of the
\* slot array).
C8_OccupancyBound ==
  (~ht_deleted /\ ht_last.op = "insert") =>
    ht.size * 100 <= 66 * Len(ht.inner)

\* C8: an insert, with no delete before it, that grew the slot array
C8_Witness ==
  /\ ~ht_deleted
  /\ ht_last.op = "insert"
  /\ Len(ht.inner) > ht_last.capacity_before
  /\ ht.size >= 2
  /\ ht.size * 100 <= 66 * Len(ht.inner)

\* C9: no two slots of the array hold the same key, and an insert of a key
\* the table already held leaves size unchanged.
C9_OverwriteExistingKey ==
  /\ \A k \in HashKeys : Cardinality(slots_of(ht, k)) <= 1
  /\ (ht_last.op = "insert" /\ ht_last.held) => ht.size = ht_last.size_before

\* the slots of `before` that `after` has cleared, all else being equal
ClearedSlots(before, after) ==
  {i \in 1..Len(before) : before[i] # None /\ after[i] = None}

RemovedOne(before, after) ==
  /\ Len(after.inner) = Len(before.inner)
  /\ Cardinality(ClearedSlots(before.inner, after.inner)) = 1
  /\ \A i \in 1..Len(before.inner) :
       i \notin ClearedSlots(before.inner, after.inner) =>
         after.inner[i] = before.inner[i]
  /\ after.size = before.size - 1

\* C15: delete(k) returns Some(v) exactly when get(k) in the same state
\* would return Some(v), and None, changing neither the slots nor size,
\* exactly when get(k) would return None; when it removes, it clears exactly
\* one slot and decrements size by one.
C15_DeleteProbesLikeGet ==
  [][(ht_last'.op = "delete" /\ ht_last' # ht_last) =>
       /\ ht_last'.result = ht_get(ht, ht_last'.key)
       /\ ht_last'.result = None => ht' = ht
       /\ ht_last'.result # None => RemovedOne(ht, ht')]_vars

\* C16: no sequence of insert and delete calls reaches the "out of memory"
\* panic of insert: the table never panicked, and it always has an empty
\* slot for the next insert to find within one probe cycle.
C16_NoExhaustion ==
  /\ ~ht.panicked
  /\ \E i \in 1..Len(ht.inner) : ht.inner[i] = None

\* C16: after a delete, an insert of a key the table held filled the table
\* past the occupancy bound, grew it by rehash and returned
C16_Witness ==
  /\ ht_deleted
  /\ ht_last.op = "insert"
  /\ ht_last.held
  /\ Len(ht.inner) > ht_last.capacity_before
  /\ ht.size = ht_last.size_before + 1
  /\ ~ht.panicked

\* the table as insert(key, value) leaves it before it looks at the
\* occupancy rate
BeforeGrowth(t, key, value, start) ==
  placed(t, (start + Min(free_offsets(t.inner, start))) % Len(t.inner),
         key, value)

GrowthPreserves(before, after) ==
  /\ Len(after.inner) = 2 * before.size
  /\ after.size = before.size
  /\ \A k \in HashKeys :
       ht_get(before, k) # None => ht_get(after, k) = ht_get(before, k)

\* C17: when an insert triggers rehash, the new capacity is 2 * size (size
\* counted after the insert), size after the rehash equals size before it,
\* and every key get could retrieve before the rehash is retrieved by get
\* with the same value afterwards.
C17_GrowthPreservesContents ==
  [][(/\ ht_last'.op = "insert"
      /\ ht_last' # ht_last
      /\ Len(ht'.inner) # Len(ht.inner)) =>
       GrowthPreserves(
         BeforeGrowth(ht, ht_last'.key, ht_map'[ht_last'.key][2],
                      start_idx(hash_key(ht_last'.key), Len(ht.inner))),
         ht')]_vars

---------------------------------------------------------------------------
(* Properties of the SortedArray                                           *)

StrictlyAscending(inner) ==
  \A i \in 1..(Len(inner) - 1) :
    str_cmp(inner[i].key, inner[i + 1].key) = "Less"

\* C10: in every state reached after completed insert and delete calls, the
\* inner sequence is strictly ascending by key.
C10_SortedOrdering ==
  sa_call.op = "idle" => StrictlyAscending(sa_inner)

\* C10: an insert has returned, having put a key before the entries that
\* were there
C10_Witness ==
  /\ sa_call.op = "idle"
  /\ sa_call.done = "insert"
  /\ Len(sa_inner) >= 3
  /\ StrictlyAscending(sa_inner)

\* the entries whose keys lie in [low, high], in the order of `inner`
EntriesInRange(inner, low, high) ==
  SelectSeq(inner, LAMBDA e : /\ str_cmp(e.key, low) # "Less"
                              /\ str_cmp(e.key, high) # "Greater")

ValuesOf(es) == [i \in 1..Len(es) |-> es[i].value]

\* C11: for keys low <= high, whether or not low is a stored key,
\* get_range(low, high) returns exactly the values of the entries whose keys
\* lie in [low, high], each once, in ascending key order.
C11_RangeQuery ==
  (/\ sa_call.op = "idle"
   /\ sa_call.done = "get_range"
   /\ ~str_gt(sa_call.key, sa_call.key_to)) =>
    sa_call.results = ValuesOf(EntriesInRange(sa_inner, sa_call.key,
                                              sa_call.key_to))

\* get and delete calls that returned gave the value the map of the calls
\* before them binds the key to, and the array holds that map
ReturnedAsMap ==
  /\ (sa_call.op = "idle" /\ sa_call.done \in {"get", "delete"}) =>
       sa_call.result = sa_call.expected
  /\ sa_call.op = "idle" =>
       \A k \in SortedKeys :
         ValuesOf(EntriesInRange(sa_inner, k, k)) =
           IF sa_map[k] = None THEN <<>> ELSE <<sa_map[k][2]>>

\* C12: after any sequence of insert and delete calls, get(k) returns
\* Some(v) for the v of the most recent insert(k, v) not followed by
\* delete(k), and None if k was never inserted or was deleted since.
C12_BehavesAsMap ==
  [](sa_call.op = "get" =>
       <>(/\ sa_call.op = "idle"
          /\ sa_call.done = "get"
          /\ sa_call.result = sa_call.expected))

\* C14: each call of get, insert, delete and get_range finishes in finitely
\* many steps and returns.
C14_CallsReturn ==
  (sa_call.op # "idle") ~> (sa_call.op = "idle")

=============================================================================
